---- MODULE Spec2Model ----
(***************************************************************************)
(* Model of tailwind.config.js: the module's single statement assigns an  *)
(* object literal to module.exports.  Evaluating the literal builds two   *)
(* arrays of strings, one array holding a regular-expression literal, an  *)
(* object and an empty array.  The consumer then reads the exported       *)
(* value: it reads fields, tests class names against the patterns and the *)
(* literal safelist, and tests file paths against the content globs.      *)
(*                                                                         *)
(* Strings are sequences of one-character strings, so that length,        *)
(* prefixes, wildcards and pattern syntax are computed, not assumed.      *)
(***************************************************************************)
EXTENDS Naturals, Integers, Sequences, FiniteSets, TLC

VARIABLES
    pc,        \* "unloaded" | "defined" | "failed" | "discarded"
    exports,   \* the value of module.exports
    err,       \* "none", or the error raised while evaluating the module
    probe      \* the consumer's last read of the exported value

vars == <<pc, exports, err, probe>>

(***************************************************************************)
(* Bounds of the inputs the consumer is given.                             *)
(***************************************************************************)
MaxClassLen == 3      \* generated class names have at most this many characters
MaxDepth == 3         \* generated file paths have at most this many directories

(***************************************************************************)
(* JavaScript values.                                                      *)
(***************************************************************************)
Undefined == [t |-> "undefined"]
Str(s) == [t |-> "string", v |-> s]
Arr(a) == [t |-> "array", v |-> a]
Obj(f) == [t |-> "object", v |-> f]
EmptyObject == Obj([k \in {} |-> Undefined])

Keys(o) == DOMAIN o.v

IsString(x) == x.t = "string"
IsRegExp(x) == x.t = "regexp"
IsObject(x) == x.t = "object"
IsArray(x) == x.t = "array"
IsArrayOfStrings(x) == IsArray(x) /\ \A i \in 1..Len(x.v) : IsString(x.v[i])
IsArrayOfRegExps(x) == IsArray(x) /\ \A i \in 1..Len(x.v) : IsRegExp(x.v[i])

(***************************************************************************)
(* The literals of the source file.                                        *)
(***************************************************************************)
contentSingleStar ==
    << <<".", "/", "t", "e", "m", "p", "l", "a", "t", "e", "s", "/", "*", "*", "/", "*", ".", "h", "t", "m", "l">>,
       <<".", "/", "*", "/", "t", "e", "m", "p", "l", "a", "t", "e", "s", "/", "*", "*", "/", "*", ".", "h", "t", "m", "l">> >>

contentFixedFile ==
    << <<".", "/", "t", "e", "m", "p", "l", "a", "t", "e", "s", "/", "i", "n", "d", "e", "x", ".", "h", "t", "m", "l">>,
       <<".", "/", "*", "*", "/", "t", "e", "m", "p", "l", "a", "t", "e", "s", "/", "*", "*", "/", "*", ".", "h", "t", "m", "l">> >>

content ==
    << <<".", "/", "t", "e", "m", "p", "l", "a", "t", "e", "s", "/", "*", "*", "/", "*", ".", "h", "t", "m", "l">>,
       <<".", "/", "*", "*", "/", "t", "e", "m", "p", "l", "a", "t", "e", "s", "/", "*", "*", "/", "*", ".", "h", "t", "m", "l">> >>

safelistRepeated ==
    << <<"w", "-", "7", "2">>,
       <<"l", "g", ":", "f", "l", "e", "x">>,
       <<"h", "i", "d", "d", "e", "n">>,
       <<"m", "i", "n", "-", "h", "-", "s", "c", "r", "e", "e", "n">>,
       <<"f", "l", "e", "x">>,
       <<"g", "r", "i", "d">>,
       <<"b", "l", "o", "c", "k">>,
       <<"f", "l", "e", "x">> >>

safelist ==
    << <<"w", "-", "7", "2">>,
       <<"l", "g", ":", "f", "l", "e", "x">>,
       <<"h", "i", "d", "d", "e", "n">>,
       <<"m", "i", "n", "-", "h", "-", "s", "c", "r", "e", "e", "n">>,
       <<"f", "l", "e", "x">>,
       <<"g", "r", "i", "d">>,
       <<"b", "l", "o", "c", "k">>,
       <<"i", "n", "l", "i", "n", "e", "-", "f", "l", "e", "x">> >>

\* The pattern with its group left open: ^(bg|...|md:?
patternSourceUnclosed ==
    <<"^", "(", "b", "g", "|", "t", "e", "x", "t", "|", "f", "r", "o", "m", "|", "t", "o", "|", "b", "o", "r", "d", "e", "r", "|", "r", "i", "n", "g", "|", "c", "o", "l", "|", "g", "r", "i", "d", "|", "g", "a", "p", "|", "p", "|", "p", "x", "|", "p", "y", "|", "p", "l", "|", "p", "r", "|", "p", "t", "|", "p", "b", "|", "m", "|", "m", "x", "|", "m", "y", "|", "w", "|", "h", "|", "m", "i", "n", "-", "h", "|", "m", "a", "x", "-", "w", "|", "r", "o", "u", "n", "d", "e", "d", "|", "s", "h", "a", "d", "o", "w", "|", "t", "r", "a", "n", "s", "l", "a", "t", "e", "|", "s", "c", "a", "l", "e", "|", "h", "o", "v", "e", "r", "|", "f", "o", "c", "u", "s", "|", "l", "g", "|", "m", "d", ":", "?">>

\* The pattern with the delimiter required: ^(bg|...|md):
patternSourceColon ==
    <<"^", "(", "b", "g", "|", "t", "e", "x", "t", "|", "f", "r", "o", "m", "|", "t", "o", "|", "b", "o", "r", "d", "e", "r", "|", "r", "i", "n", "g", "|", "c", "o", "l", "|", "g", "r", "i", "d", "|", "g", "a", "p", "|", "p", "|", "p", "x", "|", "p", "y", "|", "p", "l", "|", "p", "r", "|", "p", "t", "|", "p", "b", "|", "m", "|", "m", "x", "|", "m", "y", "|", "w", "|", "h", "|", "m", "i", "n", "-", "h", "|", "m", "a", "x", "-", "w", "|", "r", "o", "u", "n", "d", "e", "d", "|", "s", "h", "a", "d", "o", "w", "|", "t", "r", "a", "n", "s", "l", "a", "t", "e", "|", "s", "c", "a", "l", "e", "|", "h", "o", "v", "e", "r", "|", "f", "o", "c", "u", "s", "|", "l", "g", "|", "m", "d", ")", ":">>

\* The text between the slashes of the regular-expression literal.
patternSource ==
    <<"^", "(", "b", "g", "|", "t", "e", "x", "t", "|", "f", "r", "o", "m", "|", "t", "o", "|", "b", "o", "r", "d", "e", "r", "|", "r", "i", "n", "g", "|", "c", "o", "l", "|", "g", "r", "i", "d", "|", "g", "a", "p", "|", "p", "|", "p", "x", "|", "p", "y", "|", "p", "l", "|", "p", "r", "|", "p", "t", "|", "p", "b", "|", "m", "|", "m", "x", "|", "m", "y", "|", "w", "|", "h", "|", "m", "i", "n", "-", "h", "|", "m", "a", "x", "-", "w", "|", "r", "o", "u", "n", "d", "e", "d", "|", "s", "h", "a", "d", "o", "w", "|", "t", "r", "a", "n", "s", "l", "a", "t", "e", "|", "s", "c", "a", "l", "e", "|", "h", "o", "v", "e", "r", "|", "f", "o", "c", "u", "s", "|", "l", "g", "|", "m", "d", ")", ":", "?">>

patternFlagsGlobal == {"g"}

\* The flags after the closing slash of the literal: none.
patternFlags == {}

\* The regular-expression literals of safelistPatterns, in order.
safelistPatterns == << [source |-> patternSource, flags |-> patternFlags] >>

(***************************************************************************)
(* Evaluation of a regular-expression literal: the pattern text is parsed *)
(* into a program, or the parse fails with a SyntaxError.  The grammar is *)
(* the part of the ECMAScript pattern grammar the literal uses:           *)
(* disjunctions, groups, the '^' assertion, the '?' quantifier (greedy,   *)
(* or lazy when doubled) and literal characters.                          *)
(***************************************************************************)
OtherSyntaxCharacters == {"*", "+", ".", "[", "]", "{", "}", "\\", "$"}

EmptyFrame == [alts |-> <<>>, cur |-> <<>>]

ReplaceLast(s, x) == [s EXCEPT ![Len(s)] = x]

ParseChar(st, ch) ==
    IF st.error # "" THEN st
    ELSE
      LET n == Len(st.stack)
          top == st.stack[n]
          Put(term) == [st EXCEPT !.stack[n].cur = Append(top.cur, term)]
      IN CASE ch = "(" -> [st EXCEPT !.stack = Append(st.stack, EmptyFrame)]
           [] ch = ")" ->
                IF n = 1 THEN [st EXCEPT !.error = "SyntaxError"]
                ELSE LET group == [k |-> "group", alts |-> Append(top.alts, top.cur)]
                         below == st.stack[n - 1]
                     IN [st EXCEPT !.stack =
                            Append(SubSeq(st.stack, 1, n - 2),
                                   [below EXCEPT !.cur = Append(below.cur, group)])]
           [] ch = "|" ->
                [st EXCEPT !.stack[n] = [alts |-> Append(top.alts, top.cur), cur |-> <<>>]]
           [] ch = "?" ->
                IF Len(top.cur) = 0 THEN [st EXCEPT !.error = "SyntaxError"]
                ELSE LET last == top.cur[Len(top.cur)]
                     IN IF last.k = "bol" THEN [st EXCEPT !.error = "SyntaxError"]
                        ELSE IF last.k = "opt"
                        THEN IF last.lazy THEN [st EXCEPT !.error = "SyntaxError"]
                             ELSE [st EXCEPT !.stack[n].cur =
                                      ReplaceLast(top.cur, [last EXCEPT !.lazy = TRUE])]
                        ELSE [st EXCEPT !.stack[n].cur =
                                 ReplaceLast(top.cur, [k |-> "opt", r |-> last, lazy |-> FALSE])]
           [] ch = "^" -> Put([k |-> "bol"])
           [] ch \in OtherSyntaxCharacters -> [st EXCEPT !.error = "Unmodelled"]
           [] OTHER -> Put([k |-> "char", c |-> ch])

\* The characters src[lo..hi] are parsed left to right, stopping at the first error
\* (the range is halved only to keep the evaluation shallow).
RECURSIVE ParseRange(_, _, _, _)
ParseRange(st, src, lo, hi) ==
    IF lo > hi THEN st
    ELSE IF lo = hi THEN ParseChar(st, src[lo])
    ELSE LET mid == (lo + hi) \div 2
             left == ParseRange(st, src, lo, mid)
         IN IF left.error # "" THEN left ELSE ParseRange(left, src, mid + 1, hi)

Compile(src) ==
    LET final == ParseRange([stack |-> <<EmptyFrame>>, error |-> ""], src, 1, Len(src))
        top == final.stack[1]
    IN IF final.error # "" THEN [ok |-> FALSE, error |-> final.error]
       ELSE IF Len(final.stack) # 1 THEN [ok |-> FALSE, error |-> "SyntaxError"]
       ELSE [ok |-> TRUE, error |-> "",
             prog |-> [k |-> "group", alts |-> Append(top.alts, top.cur)]]

\* The RegExp object a literal evaluates to.
RegExp(lit, prog) ==
    [t |-> "regexp", source |-> lit.source, flags |-> lit.flags,
     lastIndex |-> 0, prog |-> prog]

(***************************************************************************)
(* Matching, as the backtracking matcher does it: the result is the list  *)
(* of end positions in the order the matcher tries them, so its head is   *)
(* the match the matcher reports.  Position i means i characters consumed.*)
(***************************************************************************)
RECURSIVE MatchNode(_, _, _), MatchAlts(_, _, _, _, _), MatchSeq(_, _, _, _), MatchEach(_, _, _, _)

MatchNode(n, s, i) ==
    CASE n.k = "bol" -> IF i = 0 THEN <<i>> ELSE <<>>
      [] n.k = "char" -> IF i < Len(s) /\ s[i + 1] = n.c THEN <<i + 1>> ELSE <<>>
      [] n.k = "opt" ->
           LET inner == SelectSeq(MatchNode(n.r, s, i), LAMBDA e : e # i)
           IN IF n.lazy THEN <<i>> \o inner ELSE inner \o <<i>>
      [] n.k = "group" -> MatchAlts(n.alts, 1, Len(n.alts), s, i)

\* The alternatives alts[lo..hi] are tried in order.
MatchAlts(alts, lo, hi, s, i) ==
    IF lo > hi THEN <<>>
    ELSE IF lo = hi THEN MatchSeq(alts[lo], 1, s, <<i>>)
    ELSE LET mid == (lo + hi) \div 2
         IN MatchAlts(alts, lo, mid, s, i) \o MatchAlts(alts, mid + 1, hi, s, i)

\* The terms from the j-th on, continued from each position of from, in order.
MatchSeq(terms, j, s, from) ==
    IF j > Len(terms) \/ Len(from) = 0 THEN from
    ELSE MatchSeq(terms, j + 1, s, MatchEach(terms[j], s, from, 1))

MatchEach(term, s, from, e) ==
    IF e > Len(from) THEN <<>>
    ELSE MatchNode(term, s, from[e]) \o MatchEach(term, s, from, e + 1)

\* RegExp.prototype.test: the result, and the object as the call leaves it.
RegExpTest(re, s) ==
    LET global == "g" \in re.flags
        from == IF global THEN re.lastIndex ELSE 0
        starts == {st \in from..Len(s) : Len(MatchNode(re.prog, s, st)) > 0}
    IN IF starts = {}
       THEN [result |-> FALSE,
             re |-> IF global THEN [re EXCEPT !.lastIndex = 0] ELSE re]
       ELSE LET st == CHOOSE x \in starts : \A y \in starts : x <= y
                end == MatchNode(re.prog, s, st)[1]
            IN [result |-> TRUE,
                re |-> IF global THEN [re EXCEPT !.lastIndex = end] ELSE re]

(***************************************************************************)
(* Selection of files by a content glob.  A pattern and a path are split  *)
(* at '/', a leading './' names the directory of the configuration file,  *)
(* a '**' segment stands for zero or more directories, and '*' inside a   *)
(* segment stands for any run of characters of that segment.              *)
(***************************************************************************)
Split(s, sep) ==
    LET cuts == {0} \cup {i \in 1..Len(s) : s[i] = sep} \cup {Len(s) + 1}
        Cut(k) == CHOOSE c \in cuts : Cardinality({d \in cuts : d < c}) = k
    IN [k \in 1..(Cardinality(cuts) - 1) |-> SubSeq(s, Cut(k - 1) + 1, Cut(k) - 1)]

GlobSegments(pattern) ==
    LET segs == Split(pattern, "/")
    IN IF Len(segs) > 0 /\ segs[1] = <<".">> THEN Tail(segs) ELSE segs

\* The positions of segment s that the pattern characters from the i-th on can
\* reach, starting from the positions at.
RECURSIVE WildReach(_, _, _, _)
WildReach(p, i, s, at) ==
    IF i > Len(p) \/ at = {} THEN at
    ELSE IF p[i] = "*"
    THEN WildReach(p, i + 1, s, {j \in 0..Len(s) : \E a \in at : a <= j})
    ELSE WildReach(p, i + 1, s, {a + 1 : a \in {b \in at : b < Len(s) /\ s[b + 1] = p[i]}})

WildMatch(p, s) == Len(s) \in WildReach(p, 1, s, {0})

\* The positions of path that the pattern segments from the i-th on can reach.
RECURSIVE SegmentsReach(_, _, _, _)
SegmentsReach(ps, i, path, at) ==
    IF i > Len(ps) \/ at = {} THEN at
    ELSE IF ps[i] = <<"*", "*">>
    THEN SegmentsReach(ps, i + 1, path, {j \in 0..Len(path) : \E a \in at : a <= j})
    ELSE SegmentsReach(ps, i + 1, path,
             {a + 1 : a \in {b \in at : b < Len(path) /\ WildMatch(ps[i], path[b + 1])}})

\* path is the file's path from the configuration file's directory, as segments.
GlobMatch(pattern, path) == Len(path) \in SegmentsReach(GlobSegments(pattern), 1, path, {0})

(***************************************************************************)
(* The object literal assigned to module.exports.                          *)
(***************************************************************************)
Strings(a) == Arr([i \in 1..Len(a) |-> Str(a[i])])

moduleExportsExtraKey ==
    Obj([content |-> Strings(content),
         safelist |-> Strings(safelist),
         safelistPatterns |->
             Arr([i \in 1..Len(safelistPatterns) |->
                    RegExp(safelistPatterns[i], Compile(safelistPatterns[i].source).prog)]),
         theme |-> Obj([extend |-> EmptyObject]),
         plugins |-> Arr(<<>>),
         darkMode |-> Str(<<"c", "l", "a", "s", "s">>)])

moduleExports ==
    Obj([content |-> Strings(content),
         safelist |-> Strings(safelist),
         safelistPatterns |->
             Arr([i \in 1..Len(safelistPatterns) |->
                    RegExp(safelistPatterns[i], Compile(safelistPatterns[i].source).prog)]),
         theme |-> Obj([extend |-> EmptyObject]),
         plugins |-> Arr(<<>>)])

\* Reading a property of an object: undefined when the object has no such key.
Field(o, k) == IF k \in Keys(o) THEN o.v[k] ELSE Undefined

(***************************************************************************)
(* The inputs the consumer presents to the exported value.                 *)
(***************************************************************************)
ClassAlphabet == {"p", "m", "x", "b", "g", ":", "-"}

Words(alphabet, n) == UNION {[1..k -> alphabet] : k \in 0..n}

SafelistLiterals == {safelist[i] : i \in 1..Len(safelist)}

ClassNames == Words(ClassAlphabet, MaxClassLen) \cup SafelistLiterals

DirNames == {<<"t", "e", "m", "p", "l", "a", "t", "e", "s">>, <<"a", "p", "p">>}

FileNames == {<<"x", ".", "h", "t", "m", "l">>, <<"x", ".", "c", "s", "s">>, <<"h", "t", "m", "l">>}

Paths == {Append(d, f) : d \in Words(DirNames, MaxDepth), f \in FileNames}

ReadKeys == {"content", "safelist", "safelistPatterns", "theme", "plugins", "purge"}

NoProbe == [kind |-> "none", subject |-> <<>>, hits |-> <<>>, literal |-> FALSE]

(***************************************************************************)
(* The lifecycle.                                                          *)
(***************************************************************************)
Init ==
    /\ pc = "unloaded"
    /\ exports = Undefined
    /\ err = "none"
    /\ probe = NoProbe

\* The module is evaluated: every literal is evaluated, then the assignment is made.
\* A regular-expression literal that does not parse makes the evaluation throw.
Load ==
    /\ pc = "unloaded"
    /\ LET compiled == [i \in 1..Len(safelistPatterns) |-> Compile(safelistPatterns[i].source)]
       IN IF \A i \in 1..Len(safelistPatterns) : compiled[i].ok
          THEN /\ pc' = "defined"
               /\ exports' = moduleExports
               /\ err' = "none"
          ELSE /\ pc' = "failed"
               /\ exports' = Undefined
               /\ err' = "SyntaxError"
    /\ UNCHANGED probe

\* The consumer reads one field of the exported object.
ReadField ==
    /\ pc = "defined"
    /\ probe.kind = "none"
    /\ \E k \in ReadKeys :
         probe' = [kind |-> "field", subject |-> <<k>>,
                   hits |-> <<Field(exports, k) # Undefined>>, literal |-> FALSE]
    /\ UNCHANGED <<pc, exports, err>>

\* The consumer tests a class name against every pattern, in order, and looks it
\* up in the literal safelist.  test() leaves each RegExp object as the call left it.
TestClass ==
    /\ pc = "defined"
    /\ probe.kind = "none"
    /\ \E c \in ClassNames :
         LET pats == exports.v.safelistPatterns.v
             lits == exports.v.safelist.v
             res == [i \in 1..Len(pats) |-> RegExpTest(pats[i], c)]
         IN /\ probe' = [kind |-> "class", subject |-> c,
                         hits |-> [i \in 1..Len(pats) |-> res[i].result],
                         literal |-> \E i \in 1..Len(lits) : lits[i].v = c]
            /\ exports' = [exports EXCEPT !.v.safelistPatterns.v =
                              [i \in 1..Len(pats) |-> res[i].re]]
    /\ UNCHANGED <<pc, err>>

\* The consumer tests a file path against every content glob, in order.
TestPath ==
    /\ pc = "defined"
    /\ probe.kind = "none"
    /\ \E p \in Paths :
         LET globs == exports.v.content.v
         IN probe' = [kind |-> "path", subject |-> p,
                      hits |-> [i \in 1..Len(globs) |-> GlobMatch(globs[i].v, p)],
                      literal |-> FALSE]
    /\ UNCHANGED <<pc, exports, err>>

\* The read returns to the consumer, which goes on to its next read: the value is
\* consumed synchronously, one read at a time.
Return ==
    /\ pc = "defined"
    /\ probe.kind # "none"
    /\ probe' = NoProbe
    /\ UNCHANGED <<pc, exports, err>>

\* The consumer is done with the value.
Discard ==
    /\ pc = "defined"
    /\ pc' = "discarded"
    /\ UNCHANGED <<exports, err, probe>>

Next == Load \/ ReadField \/ TestClass \/ TestPath \/ Return \/ Discard

Spec == Init /\ [][Next]_vars

(***************************************************************************)
(* Properties.                                                             *)
(***************************************************************************)
Loaded == {"defined", "discarded"}

DocumentedFields == {"content", "safelist", "safelistPatterns", "theme", "plugins"}

DocumentedShapes(o) ==
    /\ IsArrayOfStrings(o.v.content)
    /\ IsArrayOfStrings(o.v.safelist)
    /\ IsArrayOfRegExps(o.v.safelistPatterns)
    /\ IsObject(o.v.theme)
    /\ "extend" \in Keys(o.v.theme)
    /\ IsObject(o.v.theme.v.extend)
    /\ IsArray(o.v.plugins)

\* C1, as stated: the exported object has exactly four top-level fields, they are
\* the documented ones, and each has its documented shape.
C1_ExactlyFourFields ==
    pc \in Loaded =>
        /\ Cardinality(Keys(exports)) = 4
        /\ Keys(exports) = DocumentedFields
        /\ DocumentedShapes(exports)

\* C1, amended: the exported object's top-level keys are exactly the five documented
\* fields content, safelist, safelistPatterns, theme and plugins, none missing and
\* none extra, and each has its documented shape.
C1_ExactlyDocumentedFields ==
    pc \in Loaded =>
        /\ IsObject(exports)
        /\ Keys(exports) = DocumentedFields
        /\ Cardinality(Keys(exports)) = 5
        /\ DocumentedShapes(exports)

C1_Witness ==
    /\ pc = "defined"
    /\ probe.kind = "field"
    /\ probe.subject = <<"safelistPatterns">>
    /\ probe.hits = <<TRUE>>
    /\ Cardinality(Keys(exports)) = 5

\* C4: content is a non-empty array, and every entry is a non-empty string holding
\* at least one '*'.
C4_ContentGlobs ==
    pc \in Loaded =>
        LET c == exports.v.content.v
        IN /\ Len(c) > 0
           /\ \A i \in 1..Len(c) :
                /\ IsString(c[i])
                /\ Len(c[i].v) > 0
                /\ \E j \in 1..Len(c[i].v) : c[i].v[j] = "*"

C4_Witness ==
    /\ pc = "defined"
    /\ probe.kind = "field"
    /\ probe.subject = <<"content">>
    /\ probe.hits = <<TRUE>>
    /\ Len(exports.v.content.v) = 2

\* C5: no two positions of safelist hold the same string, so the array is as long
\* as the set of its entries is large.
C5_SafelistNoDuplicates ==
    pc \in Loaded =>
        LET s == exports.v.safelist.v
        IN /\ \A i, j \in 1..Len(s) : i # j => s[i].v # s[j].v
           /\ Cardinality({s[i].v : i \in 1..Len(s)}) = Len(s)

C5_Witness ==
    /\ pc = "defined"
    /\ probe.kind = "field"
    /\ probe.subject = <<"safelist">>
    /\ probe.hits = <<TRUE>>
    /\ Len(exports.v.safelist.v) = 8

\* C7: once the module is evaluated, no step (a read of a field, a test of a class
\* name or of a path, the return of a read, the discard) changes the exported value;
\* the value stays defined until discarded, and no step raises an error.
C7_Immutable ==
    [][/\ pc # "unloaded" => exports' = exports
       /\ pc' \in Loaded
       /\ pc = "discarded" => pc' = "discarded"
       /\ err' = "none"]_vars

C7_Witness ==
    /\ pc = "discarded"
    /\ probe.kind = "class"
    /\ probe.hits = <<TRUE>>
    /\ exports = moduleExports
    /\ err = "none"

\* C8: every regular-expression literal of safelistPatterns compiles, so evaluating
\* the module never fails on a pattern and every entry is a RegExp object.
C8_PatternsCompile ==
    /\ err = "none"
    /\ pc # "failed"
    /\ pc \in Loaded =>
         LET pats == exports.v.safelistPatterns.v
         IN \A i \in 1..Len(pats) :
              /\ IsRegExp(pats[i])
              /\ Compile(pats[i].source).ok

C8_Witness ==
    /\ pc = "defined"
    /\ Len(exports.v.safelistPatterns.v) = 1
    /\ IsRegExp(exports.v.safelistPatterns.v[1])
    /\ probe.kind = "class"

Alternatives ==
    { <<"b", "g">>, <<"t", "e", "x", "t">>, <<"f", "r", "o", "m">>, <<"t", "o">>,
      <<"b", "o", "r", "d", "e", "r">>, <<"r", "i", "n", "g">>, <<"c", "o", "l">>,
      <<"g", "r", "i", "d">>, <<"g", "a", "p">>, <<"p">>, <<"p", "x">>, <<"p", "y">>,
      <<"p", "l">>, <<"p", "r">>, <<"p", "t">>, <<"p", "b">>, <<"m">>, <<"m", "x">>,
      <<"m", "y">>, <<"w">>, <<"h">>, <<"m", "i", "n", "-", "h">>,
      <<"m", "a", "x", "-", "w">>, <<"r", "o", "u", "n", "d", "e", "d">>,
      <<"s", "h", "a", "d", "o", "w">>, <<"t", "r", "a", "n", "s", "l", "a", "t", "e">>,
      <<"s", "c", "a", "l", "e">>, <<"h", "o", "v", "e", "r">>, <<"f", "o", "c", "u", "s">>,
      <<"l", "g">>, <<"m", "d">> }

IsPrefix(a, s) == Len(a) <= Len(s) /\ SubSeq(s, 1, Len(a)) = a

MatchingLiterals ==
    { <<"w", "-", "7", "2">>, <<"l", "g", ":", "f", "l", "e", "x">>,
      <<"h", "i", "d", "d", "e", "n">>,
      <<"m", "i", "n", "-", "h", "-", "s", "c", "r", "e", "e", "n">>,
      <<"g", "r", "i", "d">> }

NonMatchingLiterals ==
    { <<"f", "l", "e", "x">>, <<"b", "l", "o", "c", "k">>,
      <<"i", "n", "l", "i", "n", "e", "-", "f", "l", "e", "x">> }

\* C9: a class name matches the single pattern exactly when one of the listed
\* alternatives is a prefix of it; so every name starting with p, m, w or h matches,
\* the literals w-72, lg:flex, hidden, min-h-screen and grid match, and flex, block
\* and inline-flex do not match and are found only in the literal safelist.
C9_PrefixMatch ==
    probe.kind = "class" =>
        LET c == probe.subject
            hit == probe.hits[1]
        IN /\ Len(probe.hits) = 1
           /\ hit <=> \E a \in Alternatives : IsPrefix(a, c)
           /\ (Len(c) > 0 /\ c[1] \in {"p", "m", "w", "h"}) => hit
           /\ c \in MatchingLiterals => hit
           /\ c \in NonMatchingLiterals => (~hit /\ probe.literal)

C9_Witness ==
    /\ probe.kind = "class"
    /\ probe.subject = <<"h", "i", "d", "d", "e", "n">>
    /\ probe.hits = <<TRUE>>
    /\ probe.literal

\* C10: a path is selected by some glob of content exactly when it is selected by
\* the second glob: whatever the first glob selects, the second selects too.
C10_FirstGlobRedundant ==
    probe.kind = "path" =>
        /\ Len(probe.hits) = 2
        /\ probe.hits[1] => probe.hits[2]
        /\ (\E i \in 1..Len(probe.hits) : probe.hits[i]) <=> probe.hits[2]

C10_Witness ==
    /\ probe.kind = "path"
    /\ probe.subject = << <<"t", "e", "m", "p", "l", "a", "t", "e", "s">>,
                          <<"a", "p", "p">>, <<"x", ".", "h", "t", "m", "l">> >>
    /\ probe.hits = <<TRUE, TRUE>>

====
